---- MODULE Spec2Model ----
(***************************************************************************)
(* Events aggregator (app/events_aggregator.py, app/pipelines.py).         *)
(*                                                                         *)
(* A Tornado process with three asynchronous handlers over one MongoDB     *)
(* collection, db.events:                                                  *)
(*   POST /event  EventsHandler.post, insert, _on_post_response            *)
(*   GET  /event  EventsHandler.get, find/sort/to_list, _on_get_response   *)
(*   POST /stats  StatsHandler.post, aggregate/to_list, _on_post_response  *)
(* A handler runs to its store call and returns; the store operation is in *)
(* flight until the store has run it and the handler's callback has        *)
(* written the HTTP response.  Requests interleave at those points.        *)
(***************************************************************************)
EXTENDS Integers, Sequences, FiniteSets, Bags, TLC

VARIABLES
    events,     \* the collection db.events: a bag of documents
    inflight,   \* store operations issued and not yet called back: a bag
    ingested,   \* history: the events whose insert was acknowledged (a bag)
    response,   \* the HTTP response written by the latest step, if any
    served,     \* number of requests accepted so far
    max_items,  \* settings["max_items"]
    call        \* the latest direct call of a helper (specification SpecPure)

vars == <<events, inflight, ingested, response, served, max_items, call>>

---------------------------------------------------------------------------
(* Bounds of the model *)

MaxRequests == 3
MaxInflight == 2
MaxT == 12
MaxWidth == 5
MaxHours == 25
MaxCallLimit == 3

---------------------------------------------------------------------------
(* Program constants *)

\* --max-items defaults to 9999999999, which is above the 32-bit integers of
\* the model checker; the largest representable value stands for it: both
\* exceed the size of every collection and every result reached here.
DefaultMaxItems == 2147483647

TIME_RESOLUTIONS == [hour |-> 3600, day |-> 86400]

---------------------------------------------------------------------------
(* JSON values of a request body, tagged by their JSON type.  A key the    *)
(* body lacks is JMissing: data[key] raises KeyError on it.                *)

JInt(n) == [tag |-> "int", int |-> n, str |-> ""]
JStr(s) == [tag |-> "str", int |-> 0, str |-> s]
JMissing == [tag |-> "missing", int |-> 0, str |-> ""]

HasKey(data, key) == data[key].tag # "missing"

\* The decimal strings among the strings of the model, with their values:
\* int("10") = 10, where int("abc") raises ValueError.
DecimalStrings == [s \in {"10"} |-> 10]

\* Python's int(v) returns a value iff v is an int or a decimal string.
IntOk(v) == \/ v.tag = "int"
            \/ v.tag = "str" /\ v.str \in DOMAIN DecimalStrings

PyInt(v) == IF v.tag = "int" THEN v.int ELSE DecimalStrings[v.str]

Body(type, object_id, time, resolution, limit) ==
    [type |-> type, object_id |-> object_id, time |-> time,
     resolution |-> resolution, limit |-> limit]

NoBody == Body(JMissing, JMissing, JMissing, JMissing, JMissing)

---------------------------------------------------------------------------
(* Inputs *)

\* now is the only clock value of the service's runs: hour bucket 3600, day
\* bucket 0.  The events fall in the hour buckets 0 and 3600 of day 0.
Nows == {3700}
Limits == {-1, 0, 1}

EventBody(type, object_id, time) == Body(type, object_id, time, JMissing, JMissing)

\* Two types, two objects, a time whose hour and day buckets differ (3661)
\* and a time where they coincide (10).
ValidEventBodies ==
    { EventBody(JStr("A"), JInt(1), JInt(10)),
      EventBody(JStr("B"), JInt(1), JInt(3661)),
      EventBody(JStr("A"), JInt(2), JInt(10)) }

\* Bodies that are not a RawEvent: an empty type, no type, no object_id, a
\* time that is no number, no time.
InvalidEventBodies ==
    { EventBody(JStr(""), JInt(1), JInt(10)),
      EventBody(JMissing, JInt(1), JInt(10)),
      EventBody(JStr("A"), JMissing, JInt(10)),
      EventBody(JStr("A"), JInt(1), JStr("abc")),
      EventBody(JStr("A"), JInt(1), JMissing) }

StatsBody(object_id, resolution, limit) ==
    Body(JMissing, object_id, JMissing, resolution, limit)

\* Object 1 at each registered resolution and at one that is not; for
\* "hour" every limit, a negative one included.
StatsBodies ==
    {StatsBody(JInt(1), JStr("hour"), JInt(l)) : l \in Limits}
    \cup {StatsBody(JInt(1), JStr("day"), JInt(0)),
          StatsBody(JInt(1), JStr("week"), JInt(0))}

JSON == "application/json"
FORM == "application/x-www-form-urlencoded"

\* A POST request: its Content-Type, whether its body is JSON text, and the
\* object the body parses to.
Request(content_type, parses, data) ==
    [content_type |-> content_type, parses |-> parses, data |-> data]

JsonRequests(bodies) == {Request(JSON, TRUE, d) : d \in bodies}

\* A request that is not declared JSON, and one whose body is not JSON.
BadRequests == {Request(FORM, TRUE, NoBody), Request(JSON, FALSE, NoBody)}

---------------------------------------------------------------------------
(* Bags *)

One(x) == SetToBag({x})

\* The documents of a bag that are in a set, with their counts.
Only(B, S) == [d \in S \cap DOMAIN B |-> B[d]]

RECURSIVE Orderings(_)
Orderings(S) ==
    IF S = {} THEN {<<>>}
    ELSE UNION {{<<x>> \o s : s \in Orderings(S \ {x})} : x \in S}

---------------------------------------------------------------------------
(* JSONRequestHandler *)

\* prepare: 0 when the handler goes on, else the status of the error.
\* json.loads raises ValueError on a body that is not JSON, which Tornado
\* answers with 500.
prepare(method, req) ==
    IF method = "POST"
    THEN IF req.content_type = JSON
         THEN (IF req.parses THEN 0 ELSE 500)
         ELSE 400
    ELSE 0

\* As _round_time, with a remainder that takes the sign of the time.
_round_time_truncating(time, resolution) ==
    IF time >= 0 THEN time - (time % resolution)
    ELSE time + ((-time) % resolution)

_round_time(time, resolution) == time - (time % resolution)

---------------------------------------------------------------------------
(* Documents, operations in flight, responses *)

Doc(type, time, object_id) == [type |-> type, time |-> time, object_id |-> object_id]

NoPipeline == [object_id |-> 0, start |-> 0, end |-> 0]

\* A store operation in flight.  handler, docs (the documents of an insert
\* the store has not applied yet) and pipeline are the program's; data (the
\* request body), written (the documents applied so far) and now are kept
\* for the properties.
Op(handler, data, docs, written, pipeline, now) ==
    [handler |-> handler, data |-> data, docs |-> docs, written |-> written,
     pipeline |-> pipeline, now |-> now]

\* An HTTP response: handler, status and the body (stats for POST /stats,
\* list for GET /event); the rest is the operation it answers.
Reply(op, status, stats, list) ==
    [handler |-> op.handler, status |-> status, stats |-> stats, list |-> list,
     data |-> op.data, written |-> op.written, pipeline |-> op.pipeline,
     now |-> op.now]

NoOp == Op("none", NoBody, EmptyBag, EmptyBag, NoPipeline, 0)

NoResponse == Reply(NoOp, 0, <<>>, <<>>)

\* The response to a request that failed before any store call.
Failed(handler, data, status) ==
    Reply(Op(handler, data, EmptyBag, EmptyBag, NoPipeline, 0), status, <<>>, <<>>)

\* A direct call of a helper: its arguments and what it returned.
Call(fn, time, resolution, limit, result) ==
    [fn |-> fn, time |-> time, resolution |-> resolution, limit |-> limit,
     result |-> result]

NoCall == Call("none", 0, 1, 0, [start |-> 0, end |-> 0])

\* The bounds of a run: MaxRequests requests in all, MaxInflight store
\* operations at a time.
Accept == served < MaxRequests /\ served' = served + 1

CanIssue == BagCardinality(inflight) < MaxInflight

---------------------------------------------------------------------------
(* EventsHandler: POST /event *)

\* As _prepare_timestamps_for_insert, rounding to the hour at every item.
_prepare_timestamps_for_insert_one_width(time) ==
    [r \in DOMAIN TIME_RESOLUTIONS |-> _round_time(time, TIME_RESOLUTIONS.hour)]

\* The generator yields one rounded timestamp per item of TIME_RESOLUTIONS;
\* the order of a dict's items is not fixed, so the result is kept by name.
_prepare_timestamps_for_insert(time) ==
    [r \in DOMAIN TIME_RESOLUTIONS |-> _round_time(time, TIME_RESOLUTIONS[r])]

\* The documents the generator expression of post hands to insert.
InsertDocs(data) ==
    LET ts == _prepare_timestamps_for_insert(PyInt(data.time))
        doc(r) == Doc(data.type, ts[r], data.object_id)
    IN [d \in {doc(r) : r \in DOMAIN ts} |->
            Cardinality({r \in DOMAIN ts : doc(r) = d})]

\* data["time"] and int() are evaluated in post; data["type"] and
\* data["object_id"] when insert draws the first document from the
\* generator, before anything is sent.  Each failure is an uncaught
\* KeyError or ValueError: status 500 and no write.
EventsHandler_post(req) ==
    /\ Accept
    /\ LET st == prepare("POST", req)
           data == req.data
       IN IF st # 0
          THEN /\ response' = Failed("events_post", data, st)
               /\ UNCHANGED inflight
          ELSE IF ~(/\ HasKey(data, "time") /\ IntOk(data.time)
                    /\ HasKey(data, "type") /\ HasKey(data, "object_id"))
          THEN /\ response' = Failed("events_post", data, 500)
               /\ UNCHANGED inflight
          ELSE /\ CanIssue
               /\ inflight' = inflight (+) One(Op("events_post", data,
                                  InsertDocs(data), EmptyBag, NoPipeline, 0))
               /\ response' = NoResponse
    /\ UNCHANGED <<events, ingested, max_items, call>>

\* As Insert, replacing the documents of the same type and object_id.
InsertUpsert(coll, d) ==
    LET other(x) == x.type # d.type \/ x.object_id # d.object_id
    IN Only(coll, {x \in DOMAIN coll : other(x)}) (+) One(d)

\* db.events.insert adds the document to the collection, whatever it holds.
Insert(coll, d) == coll (+) One(d)

\* The store applies one more document of an insert in flight.  A batch is
\* not atomic: other operations may run between two of its documents.
StoreInsert(op, d) ==
    /\ op.handler = "events_post"
    /\ d \in DOMAIN op.docs
    /\ events' = Insert(events, d)
    /\ inflight' = (inflight (-) One(op)) (+)
                   One([op EXCEPT !.docs = @ (-) One(d), !.written = @ (+) One(d)])
    /\ response' = NoResponse
    /\ UNCHANGED <<ingested, served, max_items, call>>

\* _on_post_response(result, error): called with the store's acknowledgement
\* once every document is applied, or with an error at any point before.
EventsHandler_on_post_response(op, error) ==
    /\ op.handler = "events_post"
    /\ error \/ op.docs = EmptyBag
    /\ inflight' = inflight (-) One(op)
    /\ IF error
       THEN /\ response' = Reply(op, 500, <<>>, <<>>)
            /\ UNCHANGED ingested
       ELSE /\ response' = Reply(op, 200, <<>>, <<>>)
            /\ ingested' = ingested (+)
                   One(Doc(op.data.type, PyInt(op.data.time), op.data.object_id))
    /\ UNCHANGED <<events, served, max_items, call>>

---------------------------------------------------------------------------
(* pipelines.aggregate_events *)

\* The pipeline is fixed but for the three values of its $match stage.
aggregate_events(object_id, start, end) ==
    [object_id |-> object_id, start |-> start, end |-> end]

\* As MatchDoc, with $lt in place of $lte.
MatchDocExclusive(d, pipeline) ==
    /\ d.object_id = JInt(pipeline.object_id)
    /\ d.time < pipeline.end
    /\ d.time >= pipeline.start

\* $match: object_id equal to the (integer) object_id, start <= time <= end.
MatchDoc(d, pipeline) ==
    /\ d.object_id = JInt(pipeline.object_id)
    /\ d.time <= pipeline.end
    /\ d.time >= pipeline.start

MatchStage(coll, pipeline) ==
    LET keep(d) == MatchDoc(d, pipeline) IN Only(coll, {x \in DOMAIN coll : keep(x)})

\* $group by {type, time} with count: {$sum: 1}, then the $project that
\* renames _id.type and _id.time: one document per distinct (type, time).
CountStage(matched) ==
    {[type |-> k[1], time |-> k[2],
      count |-> LET same(d) == d.type = k[1] /\ d.time = k[2]
                IN BagCardinality(Only(matched, {x \in DOMAIN matched : same(x)}))] :
        k \in {<<d.type, d.time>> : d \in DOMAIN matched}}

\* $group by {type} with events: {$push: {events: $count, time: $time}}, then
\* the last $project: one document per type.  $push appends in the order the
\* documents arrive, which nothing fixes: every order is a possible output.
CollectStage(counts) ==
    LET types == {c.type : c \in counts}
        points(ty) == {[events |-> c.count, time |-> c.time] :
                          c \in {x \in counts : x.type = ty}}
        lists == UNION {Orderings(points(ty)) : ty \in types}
    IN {{[type |-> ty, events |-> f[ty]] : ty \in types} :
           f \in {g \in [types -> lists] :
                     \A ty \in types : g[ty] \in Orderings(points(ty))}}

\* The possible outputs of db.events.aggregate(pipeline) on a collection.
Aggregate(coll, pipeline) == CollectStage(CountStage(MatchStage(coll, pipeline)))

\* cursor.to_list(length): at most length of the cursor's documents.  An
\* aggregation's output has no fixed order, so any length of them may come.
ToList(docs, length) ==
    {k \in SUBSET docs :
        Cardinality(k) = IF Cardinality(docs) < length THEN Cardinality(docs)
                         ELSE length}

---------------------------------------------------------------------------
(* StatsHandler: POST /stats *)

\* As _compute_start_and_end, with start counted back from the clock value.
_compute_start_and_end_unrounded(resolution, limit, now) ==
    LET rounded == _round_time(now, resolution)
        start == now - (resolution * limit)
    IN [start |-> start, end |-> rounded]

\* now is the value of self._now() in this call.
_compute_start_and_end(resolution, limit, now) ==
    LET rounded == _round_time(now, resolution)
        start == rounded - (resolution * limit)
    IN [start |-> start, end |-> rounded]

\* int(data["object_id"]), TIME_RESOLUTIONS[data['resolution']] and
\* int(data['limit']) raise KeyError or ValueError on a key, a name or a
\* number that is not there: uncaught, status 500, no store call.
StatsHandler_post(req, now) ==
    /\ Accept
    /\ LET st == prepare("POST", req)
           data == req.data
       IN IF st # 0
          THEN /\ response' = Failed("stats_post", data, st)
               /\ UNCHANGED inflight
          ELSE IF ~(/\ HasKey(data, "object_id") /\ IntOk(data.object_id)
                    /\ HasKey(data, "resolution")
                    /\ data.resolution.tag = "str"
                    /\ data.resolution.str \in DOMAIN TIME_RESOLUTIONS
                    /\ HasKey(data, "limit") /\ IntOk(data.limit))
          THEN /\ response' = Failed("stats_post", data, 500)
               /\ UNCHANGED inflight
          ELSE LET object_id == PyInt(data.object_id)
                   se == _compute_start_and_end(
                             TIME_RESOLUTIONS[data.resolution.str],
                             PyInt(data.limit), now)
                   pipeline == aggregate_events(object_id, se.start, se.end)
               IN /\ CanIssue
                  /\ inflight' = inflight (+) One(Op("stats_post", data,
                                     EmptyBag, EmptyBag, pipeline, now))
                  /\ response' = NoResponse
    /\ UNCHANGED <<events, ingested, max_items, call>>

\* The dict comprehension of _on_post_response over the documents of result.
StatsResponse(result) ==
    [ty \in {obj.type : obj \in result} |->
        (CHOOSE obj \in result : obj.type = ty).events]

\* The store runs the pipeline on the collection as it is now and
\* _on_post_response(result, error) writes the response; or the store fails
\* and it is called with the error.
StatsHandler_on_post_response(op, error) ==
    /\ op.handler = "stats_post"
    /\ inflight' = inflight (-) One(op)
    /\ IF error
       THEN response' = Reply(op, 500, <<>>, <<>>)
       ELSE \E output \in Aggregate(events, op.pipeline) :
                \E result \in ToList(output, max_items) :
                    response' = Reply(op, 200, StatsResponse(result), <<>>)
    /\ UNCHANGED <<events, ingested, served, max_items, call>>

---------------------------------------------------------------------------
(* EventsHandler: GET /event *)

\* find().sort([('time', -1)]).to_list(length): the first length documents
\* in descending time; documents of equal time come in any order.
RECURSIVE SortedList(_, _)
SortedList(coll, length) ==
    IF length = 0 \/ coll = EmptyBag THEN {<<>>}
    ELSE LET latest == {d \in DOMAIN coll : \A e \in DOMAIN coll : e.time <= d.time}
         IN UNION {{<<d>> \o s : s \in SortedList(coll (-) One(d), length - 1)} :
                      d \in latest}

EventsHandler_get ==
    /\ Accept
    /\ CanIssue
    /\ inflight' = inflight (+)
                   One(Op("events_get", NoBody, EmptyBag, EmptyBag, NoPipeline, 0))
    /\ response' = NoResponse
    /\ UNCHANGED <<events, ingested, max_items, call>>

EventsHandler_on_get_response(op, error) ==
    /\ op.handler = "events_get"
    /\ inflight' = inflight (-) One(op)
    /\ IF error
       THEN response' = Reply(op, 500, <<>>, <<>>)
       ELSE \E result \in SortedList(events, max_items) :
                response' = Reply(op, 200, <<>>, result)
    /\ UNCHANGED <<events, ingested, served, max_items, call>>

---------------------------------------------------------------------------
(* The service *)

Init ==
    /\ events = EmptyBag
    /\ inflight = EmptyBag
    /\ ingested = EmptyBag
    /\ response = NoResponse
    /\ served = 0
    /\ max_items \in {1, DefaultMaxItems}
    /\ call = NoCall

Next ==
    \/ \E req \in JsonRequests(ValidEventBodies \cup InvalidEventBodies)
                    \cup BadRequests :
           EventsHandler_post(req)
    \/ \E op \in DOMAIN inflight : \E d \in DOMAIN op.docs :
           StoreInsert(op, d)
    \/ \E op \in DOMAIN inflight : \E error \in BOOLEAN :
           EventsHandler_on_post_response(op, error)
    \/ \E req \in JsonRequests(StatsBodies) : \E now \in Nows :
           StatsHandler_post(req, now)
    \/ \E op \in DOMAIN inflight : \E error \in BOOLEAN :
           StatsHandler_on_post_response(op, error)
    \/ EventsHandler_get
    \/ \E op \in DOMAIN inflight : \E error \in BOOLEAN :
           EventsHandler_on_get_response(op, error)

Spec == Init /\ [][Next]_vars

---------------------------------------------------------------------------
(* The helpers called directly, on arguments beyond those of the service's *)
(* runs: _round_time on every small time and width and on times around     *)
(* hour and day boundaries of both signs, _compute_start_and_end on every  *)
(* registered resolution, limit and clock value.                           *)

CallTimes ==
    (-MaxT..MaxT)
    \cup {h * 3600 + d : h \in -MaxHours..MaxHours, d \in {0, 1, 3599}}

CallWidths == (1..MaxWidth) \cup {TIME_RESOLUTIONS[r] : r \in DOMAIN TIME_RESOLUTIONS}

RoundTimeCall(time, resolution) ==
    /\ call.fn = "none"
    /\ call' = Call("_round_time", time, resolution, 0,
                    [start |-> 0, end |-> _round_time(time, resolution)])
    /\ UNCHANGED <<events, inflight, ingested, response, served, max_items>>

ComputeStartAndEndCall(resolution, limit, now) ==
    /\ call.fn = "none"
    /\ call' = Call("_compute_start_and_end", now, resolution, limit,
                    _compute_start_and_end(resolution, limit, now))
    /\ UNCHANGED <<events, inflight, ingested, response, served, max_items>>

NextPure ==
    \/ \E time \in CallTimes : \E resolution \in CallWidths :
           RoundTimeCall(time, resolution)
    \/ \E r \in DOMAIN TIME_RESOLUTIONS : \E limit \in -1..MaxCallLimit :
           \E now \in CallTimes :
               ComputeStartAndEndCall(TIME_RESOLUTIONS[r], limit, now)

SpecPure == Init /\ [][NextPure]_vars

---------------------------------------------------------------------------
(* What the properties are stated with: the specification's own rounding,  *)
(* the rollup of an event, the records a query is about.                   *)

\* floor(t / width) * width
roundDown(t, width) == width * (t \div width)

Resolutions == DOMAIN TIME_RESOLUTIONS

Rollup(type, object_id, time, r) ==
    Doc(type, roundDown(time, TIME_RESOLUTIONS[r]), object_id)

RECURSIVE SumOver(_, _)
SumOver(S, f) ==
    IF S = {} THEN 0
    ELSE LET x == CHOOSE y \in S : TRUE IN f[x] + SumOver(S \ {x}, f)

\* The records of a bag of events: one per event and resolution.
Rollups(B) ==
    LET of(e, r) == Rollup(e.type, e.object_id, e.time, r)
        n(e, d) == B[e] * Cardinality({r \in Resolutions : of(e, r) = d})
    IN [d \in {of(e, r) : e \in DOMAIN B, r \in Resolutions} |->
           SumOver(DOMAIN B, [e \in DOMAIN B |-> n(e, d)])]

\* Every stored record comes from an acknowledged ingest of a RawEvent, and
\* none is pending.
OnlySuccessfulIngests ==
    /\ events = Rollups(ingested)
    /\ \A e \in DOMAIN ingested : e.type.str # ""

StatsAnswered == response.handler = "stats_post" /\ response.status = 200

\* The stored records of the queried object and, of those, the ones in the
\* window.
OfObject(d) == d.object_id = JInt(response.pipeline.object_id)

InWindow(d) ==
    /\ OfObject(d)
    /\ response.pipeline.start <= d.time
    /\ d.time <= response.pipeline.end

Stored(ty, time) ==
    LET same(d) == OfObject(d) /\ d.type = ty /\ d.time = time
    IN BagCardinality(Only(events, {x \in DOMAIN events : same(x)}))

MatchingTypes == {d.type : d \in {x \in DOMAIN events : InWindow(x)}}

MatchingTimes(ty) == {d.time : d \in {x \in DOMAIN events : InWindow(x) /\ x.type = ty}}

\* The points of one type: one per bucket of a matching record, each with the
\* number of stored records of that type and bucket.
PointsRight(ty) ==
    LET list == response.stats[ty]
    IN /\ {list[i].time : i \in 1..Len(list)} = MatchingTimes(ty)
       /\ Len(list) = Cardinality(MatchingTimes(ty))
       /\ \A i \in 1..Len(list) : list[i].events = Stored(ty, list[i].time)

---------------------------------------------------------------------------
(* Claims *)

\* C1: a successful ingest adds exactly one record per configured
\* resolution, each with the event's type and object_id unchanged and
\* time = roundDown(event time, width of the resolution), and nothing else.
C1_IngestAddsOneRecordPerResolution ==
    (response.handler = "events_post" /\ response.status = 200) =>
        LET e == response.data
            of(r) == Rollup(e.type, e.object_id, PyInt(e.time), r)
        IN /\ BagCardinality(response.written) = Cardinality(Resolutions)
           /\ DOMAIN response.written = {of(r) : r \in Resolutions}
           /\ \A d \in DOMAIN response.written :
                  response.written[d] = Cardinality({r \in Resolutions : of(r) = d})

\* An ingest of time 3661 was acknowledged: its buckets are 3600 and 0.
C1_Witness ==
    /\ response.handler = "events_post"
    /\ response.status = 200
    /\ response.data.time = JInt(3661)
    /\ BagCardinality(response.written) = 2

\* C2: after successful ingests only, every point {time: b, events: c} a
\* stats query returns for type T at resolution r has c = the number of
\* ingested events of type T and the queried object whose time rounds down
\* to b at r's width.
C2_CountsAreOfTheQueriedResolution ==
    (StatsAnswered /\ OnlySuccessfulIngests) =>
        LET width == TIME_RESOLUTIONS[response.data.resolution.str]
            n(ty, b) ==
                LET in(e) == /\ e.type = ty
                             /\ e.object_id = JInt(response.pipeline.object_id)
                             /\ roundDown(e.time, width) = b
                IN BagCardinality(Only(ingested, {x \in DOMAIN ingested : in(x)}))
        IN \A ty \in DOMAIN response.stats :
               \A i \in 1..Len(response.stats[ty]) :
                   response.stats[ty][i].events = n(ty, response.stats[ty][i].time)

\* C3 as claimed: the result has a type iff a stored record of the object
\* and that type lies in the window; each (type, bucket) has exactly one
\* point, whose events is the number of stored records of it.
C3_AsClaimed ==
    StatsAnswered =>
        /\ DOMAIN response.stats = MatchingTypes
        /\ \A ty \in DOMAIN response.stats : PointsRight(ty)

\* C3 as amended: the types of the result are types with a record of the
\* object in the window, max_items of them when there are more than that and
\* all of them otherwise; each (type, bucket) of a type of the result has
\* exactly one point, whose events is the number of stored records of it.
C3_AggregationUpToMaxItems ==
    StatsAnswered =>
        /\ DOMAIN response.stats \subseteq MatchingTypes
        /\ Cardinality(DOMAIN response.stats) =
               IF Cardinality(MatchingTypes) < max_items
               THEN Cardinality(MatchingTypes) ELSE max_items
        /\ \A ty \in DOMAIN response.stats : PointsRight(ty)

\* A result with two types, one of them counting two records, over a store
\* that also holds a record outside the window.
C3_Witness ==
    /\ StatsAnswered
    /\ Cardinality(DOMAIN response.stats) = 2
    /\ \E ty \in DOMAIN response.stats : response.stats[ty][1].events = 2
    /\ \E d \in DOMAIN events : ~InWindow(d)

\* C4: for a registered width w, limit >= 0 and clock value now, the window
\* is [roundDown(now, w) - w * limit, roundDown(now, w)], matched with both
\* ends included: it holds exactly limit + 1 multiples of w, and with
\* limit = 0 the single bucket of now.
C4_WindowOfLimitPlusOneBuckets ==
    (call.fn = "_compute_start_and_end" /\ call.limit >= 0) =>
        LET w == call.resolution
            bucket == roundDown(call.time, w)
            pipeline == aggregate_events(1, call.result.start, call.result.end)
            around == {w * m : m \in ((call.time \div w) - call.limit - 2)
                                     ..((call.time \div w) + 2)}
            matched == {b \in around : MatchDoc(Doc(JStr("A"), b, JInt(1)), pipeline)}
        IN /\ call.result.end = bucket
           /\ call.result.start = bucket - w * call.limit
           /\ matched = {bucket - w * k : k \in 0..call.limit}
           /\ Cardinality(matched) = call.limit + 1
           /\ call.limit = 0 => matched = {bucket}

\* The window of limit 3 at hour resolution from a clock value inside an hour
\* before the epoch.
C4_Witness ==
    /\ call.fn = "_compute_start_and_end"
    /\ call.limit = 3
    /\ call.resolution = 3600
    /\ call.time = -3599
    /\ call.result = [start |-> -14400, end |-> -3600]

NegativeLimit(data) == data.limit.tag = "int" /\ data.limit.int < 0

\* C6: a stats request with a negative limit is answered 400; no window with
\* start > end is computed and no aggregation is issued for it.
C6_NegativeLimitRejected ==
    /\ (response.handler = "stats_post" /\ NegativeLimit(response.data))
           => response.status = 400
    /\ \A op \in DOMAIN inflight :
           op.handler = "stats_post" =>
               ~NegativeLimit(op.data) /\ op.pipeline.start <= op.pipeline.end

UnknownResolution(data) ==
    /\ data.resolution.tag = "str"
    /\ data.resolution.str \notin DOMAIN TIME_RESOLUTIONS

\* C7: a stats request naming a resolution that is not registered is
\* answered 400, not 500, and no store query is issued for it.
C7_UnknownResolutionRejected ==
    /\ (response.handler = "stats_post" /\ UnknownResolution(response.data))
           => response.status = 400
    /\ \A op \in DOMAIN inflight :
           op.handler = "stats_post" => ~UnknownResolution(op.data)

\* A body that parsed to an object and is not a RawEvent.
InvalidEvent(data) ==
    /\ data # NoBody
    /\ \/ data.type.tag # "str" \/ data.type.str = ""
       \/ data.object_id.tag # "int"
       \/ data.time.tag # "int"

\* C8: an ingest whose event has an empty or missing type, a missing or
\* non-integer object_id or a missing or non-integer time is answered 400
\* and writes no record.
C8_InvalidEventRejected ==
    /\ (response.handler = "events_post" /\ InvalidEvent(response.data))
           => response.status = 400 /\ response.written = EmptyBag
    /\ \A op \in DOMAIN inflight :
           op.handler = "events_post" => ~InvalidEvent(op.data)

\* C9: when the same event was ingested twice, and nothing else, the store
\* holds 2 records per resolution and a stats query of its object whose
\* window holds the event's bucket reports the count 2 for its type and
\* bucket.
C9_TwoIngestsCountTwo ==
    \A e \in DOMAIN ingested :
        LET width == TIME_RESOLUTIONS[response.data.resolution.str]
            b == roundDown(e.time, width)
        IN (/\ StatsAnswered
            /\ ingested = One(e) (+) One(e)
            /\ OnlySuccessfulIngests
            /\ InWindow(Doc(e.type, b, e.object_id)))
           => /\ BagCardinality(events) = 2 * Cardinality(Resolutions)
              /\ e.type \in DOMAIN response.stats
              /\ \E i \in 1..Len(response.stats[e.type]) :
                     response.stats[e.type][i] = [events |-> 2, time |-> b]

\* C10: the collection only grows, by one document of an insert in flight
\* at a time; a step that answers POST /stats or GET /event leaves it as it
\* was.
C10_AppendOnly ==
    [][/\ \A d \in DOMAIN events : CopiesIn(d, events') >= CopiesIn(d, events)
       /\ events' # events =>
              \E op \in DOMAIN inflight : \E d \in DOMAIN op.docs :
                  op.handler = "events_post" /\ events' = events (+) One(d)
       /\ response'.handler \in {"stats_post", "events_get"} => events' = events
      ]_vars

\* GET /event listed a store of four records, which it still holds.
C10_Witness ==
    /\ response.handler = "events_get"
    /\ response.status = 200
    /\ Len(response.list) = 4
    /\ BagCardinality(events) = 4

====
